---- MODULE Spec2Model ----
(***************************************************************************)
(* A model of src/react_downloader.py (class ReactSourceDownloader):       *)
(* path normalisation (_clean_source_path), source-map extraction          *)
(* (_analyze_source_maps, _parse_source_map), the ledger discovered_files  *)
(* and the writer loop (download_files).                                   *)
(*                                                                         *)
(* Paths and contents are TLA+ strings; the Python string methods the code *)
(* uses (startswith, endswith, in, lstrip, split, lower) are operators     *)
(* over them, computed character by character.                             *)
(***************************************************************************)
EXTENDS Integers, Sequences, FiniteSets, TLC

VARIABLES
    pc,                   \* position of the run: see the actions
    source_maps,          \* self.source_maps: bundle URLs found on the main page
    discovered_files,     \* self.discovered_files: the ledger
    origin,               \* history: per ledger record, the bundle whose map gave it
    bundle_idx,           \* position of `for bundle_url in self.source_maps`
    mode,                 \* which branch of the running _parse_source_map call
    entry_idx,            \* its loop index: entries of the map consumed so far
    cur,                  \* its loop locals <<source_path, content>>
    parse_raised,         \* an exception escaped the last _parse_source_map call
    dl_idx,               \* records download_files has attempted
    attempted,            \* history: the paths download_files attempted, in order
    successful_downloads, \* local counter of download_files
    failed_downloads,     \* local counter of download_files
    written,              \* files on disk: the ledger indices written
    dl_result,            \* return value of download_files
    cp_in,                \* argument of a _clean_source_path call
    cp_out,               \* its return value
    map_log,              \* history: the map URLs requested for the current bundle
    ep_log,               \* history: the requests of the last secondary fetch
    fetch_arg,            \* webpack_path of the last secondary fetch
    fetch_ret             \* what that fetch returned

vars == <<pc, source_maps, discovered_files, origin, bundle_idx, mode, entry_idx,
          cur, parse_raised, dl_idx, attempted, successful_downloads,
          failed_downloads, written, dl_result, cp_in, cp_out, map_log, ep_log,
          fetch_arg, fetch_ret>>

-----------------------------------------------------------------------------
(* Bounds of the model *)

MaxBundles == 2     \* bundles the main page refers to
MaxSources == 2     \* entries of one map's sources list
MaxSegs    == 4     \* segments of one virtual path given to a normalisation call

(* Constants of the program *)

WebpackPrefixLen  == 10    \* source_path[10:]
DotSlashLen       == 2     \* source_path[2:]
ProjectNameMaxLen == 20    \* len(parts[0]) > 20

NULL == "<None>"           \* Python's None (JSON null), distinct from every text

-----------------------------------------------------------------------------
(* Python string methods *)

Char(s, i) == SubSeq(s, i, i)

DropFirst(s, n) == SubSeq(s, n + 1, Len(s))

StartsWith(s, pre) == Len(s) >= Len(pre) /\ SubSeq(s, 1, Len(pre)) = pre

EndsWith(s, suf) ==
    Len(s) >= Len(suf) /\ SubSeq(s, Len(s) - Len(suf) + 1, Len(s)) = suf

Contains(s, sub) ==
    \E i \in 1..(Len(s) - Len(sub) + 1) : SubSeq(s, i, i + Len(sub) - 1) = sub

RECURSIVE LStrip(_, _)
LStrip(s, chars) ==
    IF s # "" /\ Char(s, 1) \in chars THEN LStrip(DropFirst(s, 1), chars) ELSE s

UpperChars == "ABCDEFGHIJKLMNOPQRSTUVWXYZ"
LowerChars == "abcdefghijklmnopqrstuvwxyz"

LowerChar(c) ==
    IF \E k \in 1..Len(UpperChars) : Char(UpperChars, k) = c
    THEN Char(LowerChars, CHOOSE k \in 1..Len(UpperChars) : Char(UpperChars, k) = c)
    ELSE c

RECURSIVE Lower(_)
Lower(s) == IF s = "" THEN "" ELSE LowerChar(Char(s, 1)) \o Lower(DropFirst(s, 1))

\* index of the first "/" of s (s contains one)
FirstSlash(s) == CHOOSE i \in 1..Len(s) :
                    Char(s, i) = "/" /\ \A j \in 1..(i - 1) : Char(s, j) # "/"

\* s.split('/')[0]
FirstPart(s) == IF Contains(s, "/") THEN SubSeq(s, 1, FirstSlash(s) - 1) ELSE s

\* '/'.join(s.split('/')[1:])
RestParts(s) == IF Contains(s, "/") THEN DropFirst(s, FirstSlash(s)) ELSE ""

\* s.split('/')[-1]
RECURSIVE LastPart(_)
LastPart(s) == IF Contains(s, "/") THEN LastPart(RestParts(s)) ELSE s

-----------------------------------------------------------------------------
(* _clean_source_path *)

SourceExts == {".js", ".ts", ".jsx", ".tsx", ".css"}

GenericFirstParts == {"src", ".", ".."}

StripWebpackPrefix(p) ==
    IF StartsWith(p, "webpack://") THEN DropFirst(p, WebpackPrefixLen) ELSE p

\* variant: every extension-less first part is taken for a project name
DropsFirstPartAlways(first) ==
    ~ \E e \in SourceExts : EndsWith(first, e)

DropsFirstPart(first) ==
    /\ ~ \E e \in SourceExts : EndsWith(first, e)
    /\ (first \in GenericFirstParts \/ Len(first) > ProjectNameMaxLen)

HandlePattern(s) ==
    IF StartsWith(s, "./") THEN DropFirst(s, DotSlashLen)
    ELSE IF Contains(s, "/") /\ DropsFirstPart(FirstPart(s)) THEN RestParts(s)
    ELSE s

\* variant: one leading "./" or the leading slashes are stripped, not every dot
StripLeadingOnce(s) ==
    IF StartsWith(s, "./") THEN DropFirst(s, DotSlashLen) ELSE LStrip(s, {"/"})

StripLeading(s) == LStrip(LStrip(s, {".", "/"}), {"/"})

InferFolder(s) ==
    IF ~Contains(s, "/") /\ s # ""
    THEN IF StartsWith(s, "App.") \/ StartsWith(s, "index.") THEN "src/" \o s
         ELSE IF StartsWith(s, "component") \/ StartsWith(s, "Component")
              THEN "src/components/" \o s
         ELSE IF EndsWith(s, ".css") THEN "src/styles/" \o s
         ELSE s
    ELSE s

\* the path before the final `return`
CleanedBody(p) == InferFolder(StripLeading(HandlePattern(StripWebpackPrefix(p))))

\* variant: no fallback, the empty path is returned
FallbackNone(p) == ""

Fallback(p) == LastPart(p)

CleanSourcePath(p) == IF CleanedBody(p) # "" THEN CleanedBody(p) ELSE Fallback(p)

-----------------------------------------------------------------------------
(* Virtual paths given to _clean_source_path: an optional scheme prefix and *)
(* up to MaxSegs segments joined by "/" (an empty segment gives a leading,  *)
(* trailing or doubled "/").                                               *)

LongProject == "my-app-0123456789abcdef"

Segs == {"", ".", "..", "src", "my-app", LongProject, "App.js", "lib.css",
         "component", ".env"}

Schemes == {"", "webpack://"}

RECURSIVE JoinedOf(_)
JoinedOf(n) ==
    IF n = 1 THEN Segs
    ELSE JoinedOf(n - 1) \cup {p \o "/" \o g : p \in JoinedOf(n - 1), g \in Segs}

VirtualPaths == {sch \o p : sch \in Schemes, p \in JoinedOf(MaxSegs)}

NotCalled == "<not called>"

\* the object after __init__, before any method has run
Constructed ==
    /\ source_maps = <<>>
    /\ discovered_files = <<>>
    /\ origin = <<>>
    /\ bundle_idx = 0
    /\ mode = "none"
    /\ entry_idx = 0
    /\ cur = <<NULL, NULL>>
    /\ parse_raised = FALSE
    /\ dl_idx = 0
    /\ attempted = <<>>
    /\ successful_downloads = 0
    /\ failed_downloads = 0
    /\ written = {}
    /\ dl_result = NULL
    /\ map_log = <<>>
    /\ ep_log = <<>>
    /\ fetch_arg = NULL
    /\ fetch_ret = NotCalled

InitClean ==
    /\ pc = "clean"
    /\ cp_in \in VirtualPaths
    /\ cp_out = NotCalled
    /\ Constructed

CallClean ==
    /\ pc = "clean"
    /\ cp_out' = CleanSourcePath(cp_in)
    /\ pc' = "cleaned"
    /\ UNCHANGED <<source_maps, discovered_files, origin, bundle_idx, mode,
                   entry_idx, cur, parse_raised, dl_idx, attempted,
                   successful_downloads, failed_downloads, written, dl_result,
                   cp_in, map_log, ep_log, fetch_arg, fetch_ret>>

NextClean == CallClean

SpecClean == InitClean /\ [][NextClean]_vars

-----------------------------------------------------------------------------
(* The run: discover_files, then download_files *)

SourcePaths == {"webpack://my-app/node_modules/react/index.js",
                "multi ./src/index.js",
                "webpack/hot/dev-server.js",
                "a.js", "./a.js", "b.js"}

\* the maps of the runs that go on to write draw their paths from these
WriterPaths == {"a.js", "./a.js", "b.js", "multi ./src/index.js"}

\* the maps of the runs followed request by request draw their paths from these
FetchPaths == {"a.js", "multi ./src/index.js"}

\* the maps of the runs whose written files are located draw their paths from these
OutsidePaths == {"a.js", "webpack://my-app/../../x.js"}

AllPaths == SourcePaths \cup WriterPaths \cup FetchPaths \cup OutsidePaths

Contents == {NULL, "", "contentA"}

BundleUrl(k) == "/static/js/" \o ToString(k) \o ".chunk.js"

DetermineFileType(path) ==
    IF EndsWith(path, ".jsx") THEN "jsx"
    ELSE IF EndsWith(path, ".tsx") THEN "tsx"
    ELSE IF EndsWith(path, ".ts") THEN "ts"
    ELSE IF EndsWith(path, ".js") THEN "js"
    ELSE IF EndsWith(path, ".css") THEN "css"
    ELSE IF EndsWith(path, ".scss") THEN "scss"
    ELSE IF EndsWith(path, ".sass") THEN "sass"
    ELSE IF EndsWith(path, ".json") THEN "json"
    ELSE "unknown"

DevServerNames == {"webpack-dev-server", "hot-dev-server", "webpack/hot"}

\* the condition of the `if` that guards the append when the map embeds its
\* contents; Python reads `a and ... and g or not h` as `(a and ... and g) or (not h)`
KeepsEmbedded(clean_path, source_path) ==
    \/ /\ clean_path # ""
       /\ ~Contains(Lower(clean_path), "node_modules")
       /\ ~Contains(clean_path, "webpack/")
       /\ ~Contains(clean_path, "(webpack)")
       /\ ~StartsWith(clean_path, "multi ")
       /\ ~StartsWith(clean_path, "webpack:")
       /\ clean_path # source_path
    \/ ~ \E skip \in DevServerNames : Contains(Lower(source_path), skip)

\* variant: the duplicate check is missing
IsDiscoveredNever(files, clean_path) == FALSE

\* any(f['path'] == clean_path for f in self.discovered_files)
IsDiscovered(files, clean_path) ==
    \E i \in DOMAIN files : files[i].path = clean_path

\* the condition that guards the secondary fetch when the map has no contents
KeepsFetched(files, clean_path) ==
    /\ clean_path # ""
    /\ ~Contains(clean_path, "node_modules")
    /\ ~IsDiscovered(files, clean_path)

Record(clean_path, content, source, source_path) ==
    [path |-> clean_path, content |-> content,
     type |-> DetermineFileType(clean_path), source |-> source,
     original_path |-> source_path]

\* variant: the None check is missing
HasContentAlways(content) == TRUE

\* `if content is None: continue`
HasContent(content) == content # NULL

\* `if content:` on what the secondary fetch returned
IsTruthy(content) == content # NULL /\ content # ""

\* variant: json.loads is called outside the try block
ExceptionEscapesUnparsable(kind) == kind = "unparsable"

\* whether the failure of a malformed payload leaves _parse_source_map: json.loads
\* runs inside `try`, and `except Exception` catches what it raises; an object
\* with no 'sources' key raises nothing
ExceptionEscapes(kind) == FALSE

\* The normalisation and the filter are functions of the entry alone: tabulated
\* over the paths the maps draw from
CleanOf == [p \in AllPaths |-> CleanSourcePath(p)]

KeepsEmbeddedOf == [p \in AllPaths |-> KeepsEmbedded(CleanOf[p], p)]

\* variant: the record is put at the front of the list
InsertFront(files, record) == <<record>> \o files

\* self.discovered_files.append(record)
Insert(files, record) == Append(files, record)

Init ==
    /\ pc = "start"
    /\ cp_in = NotCalled
    /\ cp_out = NotCalled
    /\ Constructed

downloadVars == <<dl_idx, attempted, successful_downloads, failed_downloads,
                  written, dl_result>>
cleanVars == <<cp_in, cp_out>>
fetchVars == <<map_log, ep_log, fetch_arg, fetch_ret>>
parseVars == <<mode, entry_idx, cur, parse_raised>>

\* _scan_main_page: the bundles the entry page names (none when the request fails)
ScanMainPage ==
    /\ pc = "start"
    /\ \E n \in 0..MaxBundles :
          source_maps' = [k \in 1..n |-> BundleUrl(k)]
    /\ pc' = "analyze"
    /\ bundle_idx' = 1
    /\ UNCHANGED <<discovered_files, origin, parseVars, downloadVars, cleanVars, fetchVars>>

\* no candidate map URL of the bundle answers 200: nothing is parsed
NoMapFound ==
    /\ pc = "analyze"
    /\ bundle_idx <= Len(source_maps)
    /\ bundle_idx' = bundle_idx + 1
    /\ UNCHANGED <<pc, source_maps, discovered_files, origin, parseVars,
                   downloadVars, cleanVars, fetchVars>>

MalformedKinds == {"unparsable", "no_sources"}

\* _parse_source_map on a payload json.loads rejects (control is in the except
\* clause, which logs) or on an object with no 'sources' key (neither branch runs)
ParseMalformed(kind) ==
    /\ pc = "analyze"
    /\ bundle_idx <= Len(source_maps)
    /\ pc' = "parse"
    /\ mode' = kind
    /\ parse_raised' = ExceptionEscapes(kind)
    /\ UNCHANGED <<source_maps, discovered_files, origin, bundle_idx, entry_idx,
                   cur, downloadVars, cleanVars, fetchVars>>

MapKinds == {"embedded", "sources_only"}

\* _parse_source_map on a map with a sources list: enters one of the two loops
ParseBegin(kind) ==
    /\ pc = "analyze"
    /\ bundle_idx <= Len(source_maps)
    /\ pc' = "parse"
    /\ mode' = kind
    /\ entry_idx' = 0
    /\ parse_raised' = FALSE
    /\ UNCHANGED <<source_maps, discovered_files, origin, bundle_idx, cur,
                   downloadVars, cleanVars, fetchVars>>

\* one iteration of `for i, (source_path, content) in enumerate(zip(...))`
ParseEmbeddedEntry(source_path, content) ==
    /\ pc = "parse"
    /\ mode = "embedded"
    /\ entry_idx < MaxSources
    /\ entry_idx' = entry_idx + 1
    /\ cur' = <<source_path, content>>
    /\ LET clean_path == CleanOf[source_path] IN
       IF /\ HasContent(content)
          /\ KeepsEmbeddedOf[source_path]
          /\ ~IsDiscovered(discovered_files, clean_path)
       THEN /\ discovered_files' =
                  Insert(discovered_files,
                         Record(clean_path, content, "sourcemap", source_path))
            /\ origin' = Append(origin, bundle_idx)
       ELSE UNCHANGED <<discovered_files, origin>>
    /\ UNCHANGED <<pc, source_maps, bundle_idx, mode, parse_raised,
                   downloadVars, cleanVars, fetchVars>>

\* the body of `for source_path in source_map['sources']`, given what
\* _fetch_from_webpack_dev_server returns when it is called
SourcesOnlyBody(source_path, fetched) ==
    /\ entry_idx' = entry_idx + 1
    /\ LET clean_path == CleanOf[source_path] IN
       IF KeepsFetched(discovered_files, clean_path)
       THEN /\ cur' = <<source_path, fetched>>
            /\ IF IsTruthy(fetched)
               THEN /\ discovered_files' =
                          Insert(discovered_files,
                                 Record(clean_path, fetched, "webpack-dev-server",
                                        source_path))
                    /\ origin' = Append(origin, bundle_idx)
               ELSE UNCHANGED <<discovered_files, origin>>
       ELSE /\ cur' = <<source_path, NULL>>
            /\ UNCHANGED <<discovered_files, origin>>

\* one iteration of `for source_path in source_map['sources']`; fetched is what
\* _fetch_from_webpack_dev_server returns (None, or the text of the first 200)
ParseSourcesOnlyEntry(source_path, fetched) ==
    /\ pc = "parse"
    /\ mode = "sources_only"
    /\ entry_idx < MaxSources
    /\ SourcesOnlyBody(source_path, fetched)
    /\ UNCHANGED <<pc, source_maps, bundle_idx, mode, parse_raised,
                   downloadVars, cleanVars, fetchVars>>

\* _parse_source_map returns (its locals are gone) and the caller breaks out of
\* the candidate loop; had it raised, the caller's bare `except: continue` would
\* swallow that: either way the bundle loop goes to the next bundle
ParseEnd ==
    /\ pc = "parse"
    /\ pc' = "analyze"
    /\ bundle_idx' = bundle_idx + 1
    /\ mode' = "none"
    /\ entry_idx' = 0
    /\ cur' = <<NULL, NULL>>
    /\ UNCHANGED <<source_maps, discovered_files, origin, parse_raised,
                   downloadVars, cleanVars, fetchVars>>

\* the bundle loop is exhausted: discover_files returns the ledger
AnalyzeDone ==
    /\ pc = "analyze"
    /\ bundle_idx > Len(source_maps)
    /\ pc' = "discovered"
    /\ UNCHANGED <<source_maps, discovered_files, origin, bundle_idx, parseVars,
                   downloadVars, cleanVars, fetchVars>>

Next ==
    \/ ScanMainPage
    \/ NoMapFound
    \/ \E kind \in MalformedKinds : ParseMalformed(kind)
    \/ \E kind \in MapKinds : ParseBegin(kind)
    \/ \E p \in SourcePaths, c \in Contents : ParseEmbeddedEntry(p, c)
    \/ \E p \in SourcePaths, c \in Contents : ParseSourcesOnlyEntry(p, c)
    \/ ParseEnd
    \/ AnalyzeDone

Spec == Init /\ [][Next]_vars

-----------------------------------------------------------------------------
(* download_files, run on the ledger discover_files returned *)

discoverVars == <<source_maps, discovered_files, origin, bundle_idx, parseVars>>

\* variant: success is reported only when nothing failed
DownloadResultStrict(successes, failures) == failures = 0

\* `return successful_downloads > 0`
DownloadResult(successes, failures) == successes > 0

\* `if not self.discovered_files: return False`
DownloadNothing ==
    /\ pc = "discovered"
    /\ discovered_files = <<>>
    /\ dl_result' = FALSE
    /\ pc' = "done"
    /\ UNCHANGED <<discoverVars, dl_idx, attempted, successful_downloads,
                   failed_downloads, written, cleanVars, fetchVars>>

\* the counters are set to 0 and the loop over the ledger starts
DownloadBegin ==
    /\ pc = "discovered"
    /\ discovered_files # <<>>
    /\ pc' = "download"
    /\ dl_idx' = 0
    /\ successful_downloads' = 0
    /\ failed_downloads' = 0
    /\ UNCHANGED <<discoverVars, attempted, written, dl_result, cleanVars, fetchVars>>

\* an iteration on a record with no content: counted as failed, `continue`
DownloadNoContent ==
    /\ pc = "download"
    /\ dl_idx < Len(discovered_files)
    /\ ~IsTruthy(discovered_files[dl_idx + 1].content)
    /\ dl_idx' = dl_idx + 1
    /\ attempted' = Append(attempted, discovered_files[dl_idx + 1].path)
    /\ failed_downloads' = failed_downloads + 1
    /\ UNCHANGED <<pc, discoverVars, successful_downloads, written, dl_result,
                   cleanVars, fetchVars>>

\* an iteration whose makedirs / open / write all succeed
DownloadWrite ==
    /\ pc = "download"
    /\ dl_idx < Len(discovered_files)
    /\ IsTruthy(discovered_files[dl_idx + 1].content)
    /\ dl_idx' = dl_idx + 1
    /\ attempted' = Append(attempted, discovered_files[dl_idx + 1].path)
    /\ written' = written \cup {discovered_files[dl_idx + 1].path}
    /\ successful_downloads' = successful_downloads + 1
    /\ UNCHANGED <<pc, discoverVars, failed_downloads, dl_result, cleanVars, fetchVars>>

\* an iteration in which makedirs / open / write raises: `except Exception`
DownloadError ==
    /\ pc = "download"
    /\ dl_idx < Len(discovered_files)
    /\ IsTruthy(discovered_files[dl_idx + 1].content)
    /\ dl_idx' = dl_idx + 1
    /\ attempted' = Append(attempted, discovered_files[dl_idx + 1].path)
    /\ failed_downloads' = failed_downloads + 1
    /\ UNCHANGED <<pc, discoverVars, successful_downloads, written, dl_result,
                   cleanVars, fetchVars>>

\* the loop is exhausted: the totals are printed and the result returned
DownloadFinish ==
    /\ pc = "download"
    /\ dl_idx = Len(discovered_files)
    /\ dl_result' = DownloadResult(successful_downloads, failed_downloads)
    /\ pc' = "done"
    /\ UNCHANGED <<discoverVars, dl_idx, attempted, successful_downloads,
                   failed_downloads, written, cleanVars, fetchVars>>

NextDownload ==
    \/ ScanMainPage
    \/ NoMapFound
    \/ \E kind \in MalformedKinds : ParseMalformed(kind)
    \/ \E kind \in MapKinds : ParseBegin(kind)
    \/ \E p \in WriterPaths, c \in Contents : ParseEmbeddedEntry(p, c)
    \/ \E p \in WriterPaths, c \in Contents : ParseSourcesOnlyEntry(p, c)
    \/ ParseEnd
    \/ AnalyzeDone
    \/ DownloadNothing
    \/ DownloadBegin
    \/ DownloadNoContent
    \/ DownloadWrite
    \/ DownloadError
    \/ DownloadFinish

SpecDownload == Init /\ [][NextDownload]_vars

\* self.output_dir, by the default of __init__
OutputDir == "downloaded_source"

\* os.path.join of two components (POSIX): an absolute second component
\* replaces the first
JoinPath(a, b) ==
    IF StartsWith(b, "/") THEN b
    ELSE IF a = "" \/ EndsWith(a, "/") THEN a \o b
    ELSE a \o "/" \o b

\* file_path = os.path.join(self.output_dir, file_info['path'])
FilePath(path) == JoinPath(OutputDir, path)

\* the same run, on maps whose virtual paths name parent directories
NextWrite ==
    \/ ScanMainPage
    \/ NoMapFound
    \/ \E kind \in MalformedKinds : ParseMalformed(kind)
    \/ \E kind \in MapKinds : ParseBegin(kind)
    \/ \E p \in OutsidePaths, c \in Contents : ParseEmbeddedEntry(p, c)
    \/ \E p \in OutsidePaths, c \in Contents : ParseSourcesOnlyEntry(p, c)
    \/ ParseEnd
    \/ AnalyzeDone
    \/ DownloadNothing
    \/ DownloadBegin
    \/ DownloadNoContent
    \/ DownloadWrite
    \/ DownloadError
    \/ DownloadFinish

SpecWrite == Init /\ [][NextWrite]_vars

-----------------------------------------------------------------------------
(* The candidate loops of _analyze_source_maps and of
   _fetch_from_webpack_dev_server, followed request by request *)

BaseUrl == "http://localhost:3000"

\* a bundle URL as _scan_main_page stores it: a script (its pattern admits a
\* query string) or a stylesheet
FetchBundleUrl(k) ==
    IF k % 2 = 1
    THEN BaseUrl \o "/static/js/main" \o ToString(k) \o ".js?v=1"
    ELSE BaseUrl \o "/static/css/main" \o ToString(k) \o ".css"

\* str.replace: every occurrence, left to right, without overlap
RECURSIVE Replace(_, _, _)
Replace(s, old, new) ==
    IF Len(s) < Len(old) THEN s
    ELSE IF StartsWith(s, old)
    THEN new \o Replace(DropFirst(s, Len(old)), old, new)
    ELSE Char(s, 1) \o Replace(DropFirst(s, 1), old, new)

\* map_urls
MapUrls(bundle_url) ==
    <<bundle_url \o ".map",
      Replace(Replace(bundle_url, ".js", ".js.map"), ".css", ".css.map")>>

\* urllib.parse.quote: the characters it never encodes
AlwaysSafe == UpperChars \o LowerChars \o "0123456789_.-~"

\* the percent-encoding of the other characters the paths contain
PercentCode == (" " :> "%20") @@ ("(" :> "%28") @@ (")" :> "%29")

RECURSIVE Quote(_, _)
Quote(s, safe) ==
    IF s = "" THEN ""
    ELSE (IF Contains(AlwaysSafe \o safe, Char(s, 1))
          THEN Char(s, 1) ELSE PercentCode[Char(s, 1)])
         \o Quote(DropFirst(s, 1), safe)

\* possible_endpoints
PossibleEndpoints(webpack_path) ==
    <<"__webpack_dev_server__/src/" \o webpack_path,
      "webpack://" \o webpack_path,
      "src/" \o webpack_path,
      webpack_path>>

\* test_url, for each endpoint in turn
TestUrls(webpack_path) ==
    [i \in DOMAIN PossibleEndpoints(webpack_path) |->
        BaseUrl \o "/" \o Quote(PossibleEndpoints(webpack_path)[i], "/:")]

\* the candidate lists are functions of the bundle URL and of the source path
\* alone: tabulated
MapUrlsOf ==
    [u \in {FetchBundleUrl(k) : k \in 1..MaxBundles} |-> MapUrls(u)]

TestUrlsOf == [p \in FetchPaths |-> TestUrls(p)]

\* session.get raises, or answers with a status other than 200
FailOutcomes == {"error", "404"}

\* response.text of an answer with status 200
FetchTexts == {"", "contentA"}

\* variant: the `break` after _parse_source_map is missing
BreaksNever(raised) == FALSE

\* the `break` that follows the _parse_source_map call is reached unless the
\* call raised, in which case the bare `except: continue` takes the next candidate
BreaksAfterParse(raised) == ~raised

\* _scan_main_page, on a page that names scripts with a query string and
\* stylesheets
ScanBundles ==
    /\ pc = "start"
    /\ \E n \in 0..MaxBundles :
          source_maps' = [k \in 1..n |-> FetchBundleUrl(k)]
    /\ pc' = "analyze"
    /\ bundle_idx' = 1
    /\ UNCHANGED <<discovered_files, origin, parseVars, downloadVars, cleanVars,
                   fetchVars>>

\* the next map URL candidate is requested; the request raises or the answer is
\* not 200: the loop goes on
MapRequestFails(outcome) ==
    /\ pc = "analyze"
    /\ bundle_idx <= Len(source_maps)
    /\ Len(map_log) < Len(MapUrlsOf[source_maps[bundle_idx]])
    /\ map_log' = Append(map_log,
           [url |-> MapUrlsOf[source_maps[bundle_idx]][Len(map_log) + 1],
            status |-> outcome])
    /\ UNCHANGED <<pc, source_maps, discovered_files, origin, bundle_idx,
                   parseVars, downloadVars, cleanVars, ep_log, fetch_arg,
                   fetch_ret>>

\* the next map URL candidate is requested and answers 200: _parse_source_map
\* is called on the payload, which is of the given kind
MapRequestOk(kind) ==
    /\ pc = "analyze"
    /\ bundle_idx <= Len(source_maps)
    /\ Len(map_log) < Len(MapUrlsOf[source_maps[bundle_idx]])
    /\ map_log' = Append(map_log,
           [url |-> MapUrlsOf[source_maps[bundle_idx]][Len(map_log) + 1],
            status |-> "200"])
    /\ pc' = "parse"
    /\ mode' = kind
    /\ entry_idx' = 0
    /\ parse_raised' = (kind \in MalformedKinds /\ ExceptionEscapes(kind))
    /\ UNCHANGED <<source_maps, discovered_files, origin, bundle_idx, cur,
                   downloadVars, cleanVars, ep_log, fetch_arg, fetch_ret>>

\* _parse_source_map is over (its locals are gone): `break`, or `continue` had
\* it raised
MapParseReturns ==
    /\ pc = "parse"
    /\ pc' = "analyze"
    /\ mode' = "none"
    /\ entry_idx' = 0
    /\ cur' = <<NULL, NULL>>
    /\ ep_log' = <<>>
    /\ fetch_arg' = NULL
    /\ fetch_ret' = NotCalled
    /\ IF BreaksAfterParse(parse_raised)
       THEN /\ bundle_idx' = bundle_idx + 1
            /\ map_log' = <<>>
       ELSE UNCHANGED <<bundle_idx, map_log>>
    /\ UNCHANGED <<source_maps, discovered_files, origin, parse_raised,
                   downloadVars, cleanVars>>

\* every map URL candidate was requested and none answered 200: next bundle
MapCandidatesExhausted ==
    /\ pc = "analyze"
    /\ bundle_idx <= Len(source_maps)
    /\ Len(map_log) = Len(MapUrlsOf[source_maps[bundle_idx]])
    /\ bundle_idx' = bundle_idx + 1
    /\ map_log' = <<>>
    /\ UNCHANGED <<pc, source_maps, discovered_files, origin, parseVars,
                   downloadVars, cleanVars, ep_log, fetch_arg, fetch_ret>>

\* an iteration of the sources loop whose `if` fails: nothing is fetched
SourcesOnlySkip(source_path) ==
    /\ ~KeepsFetched(discovered_files, CleanOf[source_path])
    /\ ParseSourcesOnlyEntry(source_path, NULL)

\* an iteration of the sources loop whose `if` holds:
\* _fetch_from_webpack_dev_server(source_path) is entered
FetchBegin(source_path) ==
    /\ pc = "parse"
    /\ mode = "sources_only"
    /\ entry_idx < MaxSources
    /\ KeepsFetched(discovered_files, CleanOf[source_path])
    /\ pc' = "fetching"
    /\ fetch_arg' = source_path
    /\ ep_log' = <<>>
    /\ fetch_ret' = NotCalled
    /\ UNCHANGED <<source_maps, discovered_files, origin, bundle_idx, parseVars,
                   downloadVars, cleanVars, map_log>>

\* the next endpoint is requested; the request raises or the answer is not 200
EndpointRequestFails(outcome) ==
    /\ pc = "fetching"
    /\ Len(ep_log) < Len(TestUrlsOf[fetch_arg])
    /\ ep_log' = Append(ep_log,
           [url |-> TestUrlsOf[fetch_arg][Len(ep_log) + 1],
            status |-> outcome, text |-> NULL])
    /\ UNCHANGED <<pc, source_maps, discovered_files, origin, bundle_idx,
                   parseVars, downloadVars, cleanVars, map_log, fetch_arg,
                   fetch_ret>>

\* the next endpoint is requested and answers 200: `return response.text`, and
\* the iteration of the sources loop goes on with it
EndpointRequestOk(text) ==
    /\ pc = "fetching"
    /\ Len(ep_log) < Len(TestUrlsOf[fetch_arg])
    /\ ep_log' = Append(ep_log,
           [url |-> TestUrlsOf[fetch_arg][Len(ep_log) + 1],
            status |-> "200", text |-> text])
    /\ fetch_ret' = text
    /\ SourcesOnlyBody(fetch_arg, text)
    /\ pc' = "parse"
    /\ UNCHANGED <<source_maps, bundle_idx, mode, parse_raised, downloadVars,
                   cleanVars, map_log, fetch_arg>>

\* every endpoint was requested and none answered 200: `return None`, and the
\* iteration of the sources loop goes on with it
EndpointsExhausted ==
    /\ pc = "fetching"
    /\ Len(ep_log) = Len(TestUrlsOf[fetch_arg])
    /\ fetch_ret' = NULL
    /\ SourcesOnlyBody(fetch_arg, NULL)
    /\ pc' = "parse"
    /\ UNCHANGED <<source_maps, bundle_idx, mode, parse_raised, downloadVars,
                   cleanVars, map_log, ep_log, fetch_arg>>

NextFetch ==
    \/ ScanBundles
    \/ \E outcome \in FailOutcomes : MapRequestFails(outcome)
    \/ \E kind \in MalformedKinds \cup MapKinds : MapRequestOk(kind)
    \/ \E p \in FetchPaths, c \in Contents : ParseEmbeddedEntry(p, c)
    \/ \E p \in FetchPaths : SourcesOnlySkip(p)
    \/ \E p \in FetchPaths : FetchBegin(p)
    \/ \E outcome \in FailOutcomes : EndpointRequestFails(outcome)
    \/ \E text \in FetchTexts : EndpointRequestOk(text)
    \/ EndpointsExhausted
    \/ MapParseReturns
    \/ MapCandidatesExhausted
    \/ AnalyzeDone

SpecFetch == Init /\ [][NextFetch]_vars

-----------------------------------------------------------------------------
(* Properties *)

IsPrefix(a, b) == Len(a) <= Len(b) /\ SubSeq(b, 1, Len(a)) = a

IsVendorPath == [p \in AllPaths |-> Contains(Lower(p), "node_modules")]

\* a step that is one iteration of the embedded-contents loop
EmbeddedStep ==
    pc = "parse" /\ mode = "embedded" /\ entry_idx' = entry_idx + 1

\* a step that is one iteration of either entry loop
EntryStep == pc = "parse" /\ entry_idx' = entry_idx + 1

\* C1 (as claimed): no record of discovered_files comes from a sources entry
\* whose virtual path contains 'node_modules', compared case-insensitively.
C1_NoVendorRecord ==
    \A i \in DOMAIN discovered_files :
        ~IsVendorPath[discovered_files[i].original_path]

\* C2: discovered_files never holds two records with the same normalized path,
\* and an entry whose normalized path is already present leaves the ledger as it
\* was: no step changes the record stored for a path.
C2_FirstSeenWins ==
    /\ [](\A i, j \in DOMAIN discovered_files :
             discovered_files[i].path = discovered_files[j].path => i = j)
    /\ [][/\ \/ discovered_files' = discovered_files
             \/ \A i \in DOMAIN discovered_files : \A j \in DOMAIN discovered_files' :
                   discovered_files'[j].path = discovered_files[i].path
                       => discovered_files'[j] = discovered_files[i]
          /\ (EntryStep /\ IsDiscovered(discovered_files, CleanOf[cur'[1]]))
                => discovered_files' = discovered_files]_vars

\* C2, reached: './a.js' with other content was read after 'a.js' was stored, and
\* the stored record is the first one
C2_DuplicateDropped ==
    /\ pc = "parse"
    /\ mode = "embedded"
    /\ cur = <<"./a.js", "">>
    /\ discovered_files =
          <<Record("a.js", "contentA", "sourcemap", "a.js")>>

\* C3: every step keeps the ledger as a prefix of the new ledger and appends at
\* most one record, the one of the entry just read, at the end; so the records
\* are ordered by the bundle whose map gave them (M1's before M2's), and within
\* a map by the order its entries were read.
C3_AppendOnly ==
    /\ [][/\ IsPrefix(discovered_files, discovered_files')
          /\ Len(discovered_files') <= Len(discovered_files) + 1
          /\ Len(discovered_files') > Len(discovered_files) =>
                /\ EntryStep
                /\ discovered_files'[Len(discovered_files')].original_path = cur'[1]
                /\ origin' = Append(origin, bundle_idx)]_vars
    /\ [](/\ Len(origin) = Len(discovered_files)
          /\ \A i, j \in DOMAIN origin : i < j => origin[i] <= origin[j])

\* C3, reached: two records of the first map in its sources order, then one that
\* only the second map gave
C3_TwoMapsInOrder ==
    /\ origin = <<1, 1, 2>>
    /\ discovered_files[1].original_path = "b.js"
    /\ discovered_files[2].original_path = "a.js"
    /\ discovered_files[3].original_path = "multi ./src/index.js"

\* C4 (as claimed): for every non-empty p, _clean_source_path(p) is non-empty.
C4_NonEmpty ==
    (pc = "cleaned" /\ cp_in # "") => cp_out # ""

\* C4 (amended): for every non-empty p that does not end in '/',
\* _clean_source_path(p) is non-empty; an empty result is returned only for a
\* path that ends in '/' (or the empty path), where the fallback segment is empty.
C4_NonEmptyUnlessTrailingSlash ==
    pc = "cleaned" =>
        /\ (cp_in # "" /\ ~EndsWith(cp_in, "/")) => cp_out # ""
        /\ cp_out = "" => (cp_in = "" \/ EndsWith(cp_in, "/"))

\* C4, reached: steps 1-5 left nothing of 'webpack://src/..' and the fallback
\* returned its last segment
C4_FallbackTaken ==
    /\ pc = "cleaned"
    /\ cp_in = "webpack://src/.."
    /\ cp_out = ".."

\* the shape 'webpack://<project>/./<rel>' of C5, read off the argument
C5_Project == FirstPart(DropFirst(cp_in, 10))
C5_Rel == DropFirst(RestParts(DropFirst(cp_in, 10)), 2)
C5_Shape ==
    /\ StartsWith(cp_in, "webpack://")
    /\ C5_Project # ""
    /\ StartsWith(RestParts(DropFirst(cp_in, 10)), "./")
    /\ Contains(C5_Rel, "/")

\* C5 (as claimed): 'webpack://my-app/./src/App.js' gives 'src/App.js', and every
\* 'webpack://<project>/./<rel>' with a separator in <rel> gives <rel>.
C5_ScenarioA ==
    (pc = "cleaned" /\ C5_Shape) => cp_out = C5_Rel

\* C5 (amended): for 'webpack://<project>/./<rel>' with a separator in <rel> and
\* <rel> not starting with '.' or '/', the result is <rel> when <project> has no
\* source-file extension and is 'src', '.', '..' or longer than 20 characters;
\* any other <project> that does not start with '.' is kept, the result being
\* '<project>/./<rel>': 'webpack://my-app/./src/App.js' gives 'my-app/./src/App.js'.
C5_ProjectKeptUnlessGeneric ==
    (/\ pc = "cleaned"
     /\ C5_Shape
     /\ ~StartsWith(C5_Rel, ".")
     /\ ~StartsWith(C5_Rel, "/")) =>
        LET proj == C5_Project
            hasExt == \E e \in {".js", ".ts", ".jsx", ".tsx", ".css"} :
                          EndsWith(proj, e)
            generic == proj \in {"src", ".", ".."} \/ Len(proj) > 20
        IN  /\ (~hasExt /\ generic) => cp_out = C5_Rel
            /\ (~(~hasExt /\ generic) /\ ~StartsWith(proj, "."))
                  => cp_out = proj \o "/./" \o C5_Rel

\* C5, reached: the call of Scenario A has returned
C5_ScenarioAKeepsProject ==
    /\ pc = "cleaned"
    /\ cp_in = "webpack://my-app/./src/App.js"
    /\ cp_out = "my-app/./src/App.js"

\* C6 (as claimed): no record of discovered_files comes from a sources entry
\* whose virtual path begins with 'multi '.
C6_NoMultiRecord ==
    \A i \in DOMAIN discovered_files :
        ~StartsWith(discovered_files[i].original_path, "multi ")

\* C7 (as claimed): the value _clean_source_path returns never starts with '/'
\* and never starts with '.'.
C7_NoLeadingSlashOrDot ==
    pc = "cleaned" => (~StartsWith(cp_out, "/") /\ ~StartsWith(cp_out, "."))

\* C7 (amended): the value _clean_source_path returns never starts with '/'; it
\* starts with '.' only when it is the empty-result fallback, and then it is the
\* last segment of the input and consists of '.' characters only.
C7_NoLeadingSlashDotOnlyFromFallback ==
    pc = "cleaned" =>
        /\ ~StartsWith(cp_out, "/")
        /\ StartsWith(cp_out, ".") =>
              /\ CleanedBody(cp_in) = ""
              /\ cp_out = LastPart(cp_in)
              /\ LStrip(cp_out, {"."}) = ""

\* C7, reached: leading slashes and dots were stripped repeatedly
C7_LeadingStripped ==
    /\ pc = "cleaned"
    /\ cp_in = "/./../src"
    /\ cp_out = "src"

\* C8: in the embedded-contents loop an entry whose content is null leaves the
\* ledger as it was, while an entry with content that the filter keeps has its
\* normalized path in the ledger afterwards; so the records the current map gave
\* are at most the entries read, less the last one when its content was null.
C8_AbsentContentSkipped ==
    /\ [][EmbeddedStep =>
             IF cur'[2] = NULL
             THEN discovered_files' = discovered_files
             ELSE KeepsEmbeddedOf[cur'[1]]
                    => IsDiscovered(discovered_files', CleanOf[cur'[1]])]_vars
    /\ []((pc = "parse" /\ mode = "embedded") =>
             Cardinality({i \in DOMAIN origin : origin[i] = bundle_idx})
                <= entry_idx - (IF entry_idx > 0 /\ cur[2] = NULL THEN 1 ELSE 0))

\* C8, reached: the first map was sources ['a.js', 'b.js'] with contents
\* ['contentA', null], both entries are read, and the ledger holds a.js alone
C8_ScenarioD ==
    /\ pc = "parse"
    /\ mode = "embedded"
    /\ bundle_idx = 1
    /\ entry_idx = 2
    /\ cur = <<"b.js", NULL>>
    /\ discovered_files = <<Record("a.js", "contentA", "sourcemap", "a.js")>>

\* C9: handling a malformed payload (unparsable, or without a sources list)
\* raises nothing and leaves the ledger as it was, and the bundle loop then moves
\* to the next bundle: discovery ends only after the last bundle.
C9_MalformedConfined ==
    /\ [][(pc = "analyze" /\ pc' = "parse" /\ mode' \in MalformedKinds) =>
             (discovered_files' = discovered_files /\ ~parse_raised')]_vars
    /\ [][(pc = "parse" /\ mode \in MalformedKinds) =>
             /\ discovered_files' = discovered_files
             /\ ~parse_raised'
             /\ pc' = "analyze"
             /\ bundle_idx' = bundle_idx + 1]_vars
    /\ [](~parse_raised)
    /\ [](pc = "discovered" => bundle_idx = Len(source_maps) + 1)

\* C9, reached: the second bundle's map is malformed and the ledger holds what
\* the first bundle's map gave
C9_MalformedAfterGoodMap ==
    /\ pc = "parse"
    /\ mode \in MalformedKinds
    /\ bundle_idx = 2
    /\ discovered_files # <<>>

\* C10: download_files attempts the records in ledger order, one attempt per
\* record, each counted as one success or one failure; it never changes the
\* ledger; when it finishes on a non-empty ledger every record was attempted
\* and it returns True exactly when at least one file was written.
C10_WriterTotals ==
    /\ [](pc \in {"download", "done"} =>
             /\ successful_downloads + failed_downloads = dl_idx
             /\ attempted = [i \in 1..dl_idx |-> discovered_files[i].path]
             /\ Cardinality(written) = successful_downloads
             /\ written \subseteq {attempted[i] : i \in DOMAIN attempted})
    /\ []((pc = "done" /\ discovered_files # <<>>) =>
             /\ dl_idx = Len(discovered_files)
             /\ dl_result = (written # {}))
    /\ [][(pc \in {"discovered", "download"}) =>
             (discovered_files' = discovered_files)]_vars

\* C10, reached: the run is over with files written and files failed, and it
\* returned True
C10_PartialSuccess ==
    /\ pc = "done"
    /\ successful_downloads >= 1
    /\ failed_downloads >= 1
    /\ dl_result = TRUE

\* the statuses a log records, in request order
Statuses(log) == [i \in DOMAIN log |-> log[i].status]

\* every request of the log but the last one failed
OnlyLastMaySucceed(log) ==
    \A i \in DOMAIN log : i < Len(log) => log[i].status \in FailOutcomes

\* the log's URLs are the first Len(log) candidates, in list order
RequestedInOrder(log, candidates) ==
    /\ Len(log) <= Len(candidates)
    /\ \A i \in DOMAIN log : log[i].url = candidates[i]

\* C11: the map URL candidates of a bundle and the endpoint candidates of a
\* secondary fetch are requested in list order; a failed candidate (the request
\* raised, or the status is not 200) is followed by the next one, and nothing
\* is requested after the first 200. So a map is being parsed exactly when the
\* last map request answered 200, which happens at most once per bundle; the
\* secondary fetch returns the text of the one 200 answer, and None only after
\* all its endpoints failed.
C11_StopAtFirstSuccess ==
    /\ (pc \in {"analyze", "parse", "fetching"} /\ bundle_idx <= Len(source_maps)) =>
          /\ RequestedInOrder(map_log, MapUrlsOf[source_maps[bundle_idx]])
          /\ OnlyLastMaySucceed(map_log)
          /\ (pc \in {"parse", "fetching"}) <=>
                (map_log # <<>> /\ map_log[Len(map_log)].status = "200")
    /\ fetch_arg # NULL =>
          /\ RequestedInOrder(ep_log, TestUrlsOf[fetch_arg])
          /\ OnlyLastMaySucceed(ep_log)
          /\ (pc = "fetching") <=> (fetch_ret = NotCalled)
          /\ pc = "fetching" =>
                \A i \in DOMAIN ep_log : ep_log[i].status \in FailOutcomes
          /\ fetch_ret \notin {NotCalled, NULL} =>
                /\ ep_log[Len(ep_log)].status = "200"
                /\ fetch_ret = ep_log[Len(ep_log)].text
          /\ fetch_ret = NULL =>
                /\ Len(ep_log) = Len(TestUrlsOf[fetch_arg])
                /\ \A i \in DOMAIN ep_log : ep_log[i].status \in FailOutcomes

\* C11 (witness): the first map URL of a script bundle answered 404 and the
\* second, a different URL, answered 200; in that map's sources loop a fetch got
\* an error and a 404 before its third endpoint answered 200 with 'contentA',
\* which is what the fetch returned and what the record holds.
C11_LaterCandidateWins ==
    /\ pc = "parse"
    /\ Statuses(map_log) = <<"404", "200">>
    /\ map_log[1].url # map_log[2].url
    /\ Statuses(ep_log) = <<"error", "404", "200">>
    /\ ep_log[3].url = BaseUrl \o "/src/multi%20./src/index.js"
    /\ fetch_ret = "contentA"
    /\ \E i \in DOMAIN discovered_files :
          /\ discovered_files[i].original_path = fetch_arg
          /\ discovered_files[i].content = "contentA"
          /\ discovered_files[i].source = "webpack-dev-server"

IsAbsolute(path) == StartsWith(path, "/")

HasDotDotSegment(path) ==
    \/ path = ".."
    \/ StartsWith(path, "../")
    \/ EndsWith(path, "/..")
    \/ Contains(path, "/../")

\* the segments left of a relative path once '.', '' and 'name/..' are resolved;
\* a '..' that has no name left to cancel stays
RECURSIVE Resolved(_, _)
Resolved(rel, acc) ==
    IF rel = "" THEN acc
    ELSE LET seg == FirstPart(rel)
             rest == RestParts(rel)
         IN  IF seg \in {"", "."} THEN Resolved(rest, acc)
             ELSE IF seg = ".." /\ acc # <<>> /\ acc[Len(acc)] # ".."
             THEN Resolved(rest, SubSeq(acc, 1, Len(acc) - 1))
             ELSE Resolved(rest, Append(acc, seg))

\* the file path names a place under the output directory
InsideOutputDir(file_path) ==
    /\ StartsWith(file_path, OutputDir \o "/")
    /\ LET segs == Resolved(DropFirst(file_path, Len(OutputDir) + 1), <<>>)
       IN  segs = <<>> \/ segs[1] # ".."

\* C12 (as claimed): no path stored in discovered_files is absolute or has a
\* '..' segment, and for every record, written or not, the file path that
\* download_files builds from it lies inside the output directory.
C12_WritesInsideRoot ==
    /\ \A i \in DOMAIN discovered_files :
          /\ ~IsAbsolute(discovered_files[i].path)
          /\ ~HasDotDotSegment(discovered_files[i].path)
          /\ InsideOutputDir(FilePath(discovered_files[i].path))
    /\ \A path \in written : InsideOutputDir(FilePath(path))

\* C12 (the write itself): no file is written outside the output directory.
C12_NoFileWrittenOutside ==
    \A path \in written : InsideOutputDir(FilePath(path))

====
